---- MODULE Spec2Model ----
(***************************************************************************)
(* State-machine model of openbox/core/highdim/safeopt_advisor.py:         *)
(* the SetManager grid engine and the SafeOptAdvisor suggest/observe loop. *)
(*                                                                         *)
(* Numbers.  Confidence values, the threshold and the Lipschitz constant   *)
(* are integers.  A normalized vector component x in [0,1] on an axis of   *)
(* n points is kept as its numerator over the denominator (n-1)*VecScale,  *)
(* so the grid point coord/(n-1) has numerator coord*VecScale.  The +-1e100*)
(* sentinels of the bound arrays are +-BigConf.                            *)
(* The surrogate model is an external collaborator: each predict() call    *)
(* returns an arbitrary (mean, std) pair per row.                          *)
(***************************************************************************)
EXTENDS Integers, Sequences, FiniteSets, TLC

\* ---- bounds of the model ------------------------------------------------
MaxCells == 4        \* largest number of grid cells
MaxSeeds == 2        \* longest seed list
VecScale == 2        \* sub-cell resolution of configuration vectors
MaxTurn  == 2        \* cap on current_turn
MaxBoundCells == 2   \* largest grid of the direct update_bounds calls
OutMargin == 2       \* vectors given to nearest directly range over [-OutMargin, 1 + OutMargin]
MaxRangeCells == 6   \* largest grid of the direct range-update calls
MaxBoxes == 2        \* most _add_range calls before a _presum

\* ---- program constants --------------------------------------------------
BigConf == 1000      \* stands for the 1e100 sentinel
NaN == -999999       \* stands for float('nan'); never the result of the model's arithmetic

None == <<>>

\* (threshold, lipschitz) pairs given to the constructor; with bounds in 0..1
\* the reach (threshold - bound) / lipschitz takes the values 0, 1/2, 1 and 2
Params == {<<1, 2>>, <<2, 1>>}
BetaSqrts  == {1}
\* (mean, std) pairs a surrogate prediction row may take
Predictions == {<<0, 0>>, <<1, 0>>}

Min2(a, b) == IF a <= b THEN a ELSE b
Max2(a, b) == IF a >= b THEN a ELSE b

\* Python int(): truncation towards zero of num/den, den > 0
IntTrunc(num, den) == IF num >= 0 THEN num \div den ELSE -((-num) \div den)

RECURSIVE Prod(_)
Prod(sq) == IF sq = <<>> THEN 1 ELSE Head(sq) * Prod(Tail(sq))

\* grid shapes: every axis has at least two points
Shapes(d) == {sz \in [1..d -> 2..MaxCells] : Prod(sz) <= MaxCells}
GridSizes == Shapes(1) \cup Shapes(2)
HighDimSizes == {<<2, 2, 2>>}

\* all index tuples of an array of shape size
RECURSIVE Cells(_)
Cells(size) ==
    IF size = <<>> THEN {<<>>}
    ELSE {<<i>> \o rest : i \in 0..(size[1] - 1), rest \in Cells(Tail(size))}

\* nd_range(size): the index tuples in row-major order
RECURSIVE nd_range(_)
nd_range(size) ==
    IF Len(size) = 1
    THEN [i \in 1..size[1] |-> <<i - 1>>]
    ELSE LET rest == nd_range(Tail(size))
         IN  [k \in 1..(size[1] * Len(rest)) |->
                 <<(k - 1) \div Len(rest)>> \o rest[((k - 1) % Len(rest)) + 1]]

\* configuration vectors (numerators) of the model's resolution, inside [0,1]
RECURSIVE Vectors(_)
Vectors(size) ==
    IF size = <<>> THEN {<<>>}
    ELSE {<<x>> \o rest : x \in 0..((size[1] - 1) * VecScale), rest \in Vectors(Tail(size))}

\* ---- SetManager ---------------------------------------------------------
SetManager_init(size) ==
    [ dim        |-> Len(size),
      size       |-> size,
      s_set      |-> [c \in Cells(size) |-> FALSE],
      g_set      |-> [c \in Cells(size) |-> FALSE],
      m_set      |-> [c \in Cells(size) |-> FALSE],
      vis_set    |-> [c \in Cells(size) |-> FALSE],
      upper_conf |-> [c \in Cells(size) |-> BigConf],
      lower_conf |-> [c \in Cells(size) |-> -BigConf],
      tmp        |-> [c \in Cells(size) |-> 0] ]

\* one pass "for i in range(1, size[ax]): tmp[.., i, ..] += tmp[.., i-1, ..]"
RECURSIVE PresumAxis(_, _, _, _)
PresumAxis(tmp, size, ax, i) ==
    IF i > size[ax] - 1 THEN tmp
    ELSE PresumAxis([c \in DOMAIN tmp |->
                        IF c[ax] = i THEN tmp[c] + tmp[[c EXCEPT ![ax] = i - 1]]
                        ELSE tmp[c]],
                    size, ax, i + 1)

_presum(sm) ==
    IF sm.dim = 1
    THEN [sm EXCEPT !.tmp = PresumAxis(sm.tmp, sm.size, 1, 1)]
    ELSE [sm EXCEPT !.tmp = PresumAxis(PresumAxis(sm.tmp, sm.size, 1, 1), sm.size, 2, 1)]

\* the result of a call that may raise: exc is "" or the exception's name
Ok(v)     == [exc |-> "", val |-> v]
Raise(e, v) == [exc |-> e, val |-> v]

\* _query_range: the number held for the box l..r; unpacking a tuple that is
\* not a pair raises ValueError
_query_range(sm, l, r) ==
    IF sm.dim = 1
    THEN Ok(sm.tmp[r] - (IF l[1] = 0 THEN 0 ELSE sm.tmp[<<l[1] - 1>>]))
    ELSE IF Len(l) # 2 THEN Raise("ValueError", 0)
    ELSE LET x1 == l[1]
             y1 == l[2]
             x2 == r[1]
             y2 == r[2]
             a0 == sm.tmp[<<x2, y2>>]
             a1 == IF x1 > 0
                   THEN a0 - sm.tmp[<<x1 - 1, y2>>]
                           + (IF y1 > 0 THEN sm.tmp[<<x1 - 1, y1 - 1>>] ELSE 0)
                   ELSE a0
             a2 == IF y1 > 0 THEN a1 - sm.tmp[<<x2, y1 - 1>>] ELSE a1
         IN  Ok(a2)

\* tmp[c] += d
Bump(tmp, c, d) == [tmp EXCEPT ![c] = @ + d]

\* variant of _add_range without the corner compensation tmp[x2 + 1, y2 + 1] += 1
_add_range_nocorner(sm, l, r) ==
    IF sm.dim = 1
    THEN LET t1 == Bump(sm.tmp, l, 1)
             t2 == IF r[1] < sm.size[1] - 1 THEN Bump(t1, <<r[1] + 1>>, -1) ELSE t1
         IN  Ok([sm EXCEPT !.tmp = t2])
    ELSE IF Len(l) # 2 THEN Raise("ValueError", sm)
    ELSE LET t1 == Bump(sm.tmp, <<l[1], l[2]>>, 1)
             t2 == IF r[1] < sm.size[1] - 1 THEN Bump(t1, <<r[1] + 1, l[2]>>, -1) ELSE t1
             t3 == IF r[2] < sm.size[2] - 1 THEN Bump(t2, <<l[1], r[2] + 1>>, -1) ELSE t2
         IN  Ok([sm EXCEPT !.tmp = t3])

_add_range(sm, l, r) ==
    IF sm.dim = 1
    THEN LET t1 == Bump(sm.tmp, l, 1)
             t2 == IF r[1] < sm.size[1] - 1 THEN Bump(t1, <<r[1] + 1>>, -1) ELSE t1
         IN  Ok([sm EXCEPT !.tmp = t2])
    ELSE IF Len(l) # 2 THEN Raise("ValueError", sm)
    ELSE LET x1 == l[1]
             y1 == l[2]
             x2 == r[1]
             y2 == r[2]
             t1 == Bump(sm.tmp, <<x1, y1>>, 1)
             t2 == IF x2 < sm.size[1] - 1
                   THEN LET u == Bump(t1, <<x2 + 1, y1>>, -1)
                        IN  IF y2 < sm.size[2] - 1 THEN Bump(u, <<x2 + 1, y2 + 1>>, 1) ELSE u
                   ELSE t1
             t3 == IF y2 < sm.size[2] - 1 THEN Bump(t2, <<x1, y2 + 1>>, -1) ELSE t2
         IN  Ok([sm EXCEPT !.tmp = t3])

\* variant of nearest that scales by size[i] instead of size[i] - 1
nearest_offbyone(sm, x0) ==
    [i \in 1..sm.dim |->
        IntTrunc(2 * x0[i] * sm.size[i] + (sm.size[i] - 1) * VecScale,
                 2 * (sm.size[i] - 1) * VecScale)]

\* nearest: int(x0[i] * (size[i] - 1) + 0.5), x0[i] = num / ((size[i]-1)*VecScale)
nearest(sm, x0) ==
    [i \in 1..sm.dim |->
        IntTrunc(2 * x0[i] * (sm.size[i] - 1) + (sm.size[i] - 1) * VecScale,
                 2 * (sm.size[i] - 1) * VecScale)]

\* variant of update_bounds that stores the new interval instead of intersecting
update_bounds_assign(sm, i, m, v, b) ==
    [sm EXCEPT !.upper_conf[i] = m + v * b,
               !.lower_conf[i] = m - v * b]

\* float arithmetic with a NaN operand yields NaN
FloatHi(m, v, b) == IF m = NaN \/ v = NaN \/ b = NaN THEN NaN ELSE m + v * b
FloatLo(m, v, b) == IF m = NaN \/ v = NaN \/ b = NaN THEN NaN ELSE m - v * b

\* Python min(a, x) / max(a, x): x replaces a only if x < a / x > a, and every
\* comparison with NaN is false (a is never NaN here)
PyMin(a, x) == IF x = NaN THEN a ELSE Min2(a, x)
PyMax(a, x) == IF x = NaN THEN a ELSE Max2(a, x)

update_bounds(sm, i, m, v, b) ==
    [sm EXCEPT !.upper_conf[i] = PyMin(@, FloatHi(m, v, b)),
               !.lower_conf[i] = PyMax(@, FloatLo(m, v, b))]

\* floor(num / l * (n - 1) / sqrt(dim)) for num > 0, l > 0, capped at n - 1
\* (the caller clips the box to 0..n-1, so the cap does not change the box)
FloorRadius(num, l, n, dim) ==
    LET a == num * (n - 1)
    IN  CHOOSE k \in 0..(n - 1) :
            /\ dim * k * k * l * l <= a * a
            /\ (k = n - 1 \/ dim * (k + 1) * (k + 1) * l * l > a * a)

\* mn, mx of lines 145-147 / 164-166 for cell i and maxd = num / l
BoxMin(sm, i, num, l) ==
    [j \in 1..sm.dim |-> Max2(i[j] - FloorRadius(num, l, sm.size[j], sm.dim), 0)]
BoxMax(sm, i, num, l) ==
    [j \in 1..sm.dim |-> Min2(i[j] + FloorRadius(num, l, sm.size[j], sm.dim), sm.size[j] - 1)]

\* the loop of update_s_set from the k-th cell of nd_range on
RECURSIVE SSetLoop(_, _, _, _, _)
SSetLoop(sm, cells, k, h, l) ==
    IF k > Len(cells) THEN Ok(sm)
    ELSE LET i == cells[k]
         IN  IF sm.s_set[i] /\ (h - sm.upper_conf[i]) > 0
             THEN LET r == _add_range(sm, BoxMin(sm, i, h - sm.upper_conf[i], l),
                                          BoxMax(sm, i, h - sm.upper_conf[i], l))
                  IN  IF r.exc # "" THEN r ELSE SSetLoop(r.val, cells, k + 1, h, l)
             ELSE SSetLoop(sm, cells, k + 1, h, l)

\* variant of line 151 that assigns instead of or-ing: s_set = (tmp > 0)
SSetMerge_assign(sm) ==
    [sm EXCEPT !.s_set = [c \in DOMAIN sm.s_set |-> sm.tmp[c] > 0]]

\* line 151: s_set |= (tmp > 0)
SSetMerge(sm) ==
    [sm EXCEPT !.s_set = [c \in DOMAIN sm.s_set |-> sm.s_set[c] \/ sm.tmp[c] > 0]]

\* lines 150-151, reached only if the loop did not raise
SSetFinish(r) == IF r.exc # "" THEN r ELSE Ok(SSetMerge(_presum(r.val)))

\* variant of update_s_set without the tmp.fill(0) of line 138
update_s_set_nofill(sm, h, l) ==
    SSetFinish(SSetLoop(sm, nd_range(sm.size), 1, h, l))

update_s_set(sm, h, l) ==
    SSetFinish(SSetLoop([sm EXCEPT !.tmp = [c \in DOMAIN sm.tmp |-> 0]],
                        nd_range(sm.size), 1, h, l))

\* the loop of update_g_set from the k-th cell of nd_range on
RECURSIVE GSetLoop(_, _, _, _, _)
GSetLoop(sm, cells, k, h, l) ==
    IF k > Len(cells) THEN Ok(sm)
    ELSE LET i == cells[k]
         IN  IF sm.s_set[i] /\ (h - sm.lower_conf[i]) > 0
             THEN LET q == _query_range(sm, BoxMin(sm, i, h - sm.lower_conf[i], l),
                                            BoxMax(sm, i, h - sm.lower_conf[i], l))
                  IN  IF q.exc # "" THEN Raise(q.exc, sm)
                      ELSE GSetLoop(IF q.val > 0 THEN [sm EXCEPT !.g_set[i] = TRUE] ELSE sm,
                                    cells, k + 1, h, l)
             ELSE GSetLoop(sm, cells, k + 1, h, l)

\* variant of update_g_set without the g_set.fill(False) of line 154
update_g_set_nofill(sm, h, l) ==
    GSetLoop(_presum([sm EXCEPT !.tmp = [c \in DOMAIN sm.tmp |->
                                            1 - (IF sm.s_set[c] THEN 1 ELSE 0)]]),
             nd_range(sm.size), 1, h, l)

update_g_set(sm, h, l) ==
    GSetLoop(_presum([sm EXCEPT !.g_set = [c \in DOMAIN sm.g_set |-> FALSE],
                                !.tmp = [c \in DOMAIN sm.tmp |->
                                            1 - (IF sm.s_set[c] THEN 1 ELSE 0)]]),
             nd_range(sm.size), 1, h, l)

\* variant of update_m_set without the s_set conjunct of line 172
update_m_set_nosafe(sm, minu) ==
    [sm EXCEPT !.m_set = [c \in DOMAIN sm.m_set |-> sm.lower_conf[c] <= minu]]

\* lines 171-172: m_set = s_set & (lower_conf <= minu)
update_m_set(sm, minu) ==
    [sm EXCEPT !.m_set = [c \in DOMAIN sm.m_set |-> sm.s_set[c] /\ sm.lower_conf[c] <= minu]]

\* get_array: coord[i] / (size[i] - 1), as a numerator over (size[i]-1)*VecScale
get_array(sm, coord) == [i \in 1..sm.dim |-> coord[i] * VecScale]

\* get_arrays()[1]: the coordinates of the safe cells, in nd_range order
get_arrays(sm) == SelectSeq(nd_range(sm.size), LAMBDA c : sm.s_set[c])

\* a Configuration is identified with its vector
get_config(sm, coord) == get_array(sm, coord)


\* ---- SafeOptAdvisor -----------------------------------------------------
VARIABLES
    pc,            \* "new" before the constructor ran, "ready" once an advisor exists, "failed" if it raised
    sets,          \* self.sets, the SetManager
    threshold,     \* self.threshold
    lipschitz,     \* self.lipschitz
    beta_sqrt,     \* self.beta(t) ** 0.5 of the constant schedule
    to_eval,       \* self.to_eval, a list of configurations
    current_turn,  \* self.current_turn
    op,            \* the last call made
    raised,        \* "" or the exception the last call raised
    retval,        \* the configuration the last get_suggestion returned, or None
    branch         \* path the last call took: "pending", "candidate", "safe", "neighbour", "any",
                   \* "observed", "ignored", "none"
VARIABLE
    args           \* arguments of the calls made directly on the SetManager (empty for an advisor)
VARIABLE
    beta_t         \* the turn index self.beta was last called with, -1 before its first call

vars == <<pc, sets, threshold, lipschitz, beta_sqrt, to_eval, current_turn, op, raised, retval, branch, args,
         beta_t>>

NpAny(arr) == \E c \in DOMAIN arr : arr[c]

SeedLists(size) == UNION {[1..n -> Vectors(size)] : n \in 0..MaxSeeds}

\* lines 245-246: for x in self.seed_set: s_set[nearest(x.get_array())] = True
RECURSIVE SeedLoop(_, _, _)
SeedLoop(sm, seed_set, k) ==
    IF k > Len(seed_set) THEN sm
    ELSE SeedLoop([sm EXCEPT !.s_set[nearest(sm, seed_set[k])] = TRUE], seed_set, k + 1)

\* variant of lines 258-260 that queues every safe cell twice
SeedConfigs_twice(sm) ==
    LET ids == get_arrays(sm) IN [k \in 1..(2 * Len(ids)) |-> get_config(sm, ids[((k - 1) % Len(ids)) + 1])]

\* lines 258-260: one configuration per safe cell
SeedConfigs(sm) == LET ids == get_arrays(sm) IN [k \in 1..Len(ids) |-> get_config(sm, ids[k])]

Init ==
    /\ pc = "new"
    /\ sets = None
    /\ threshold = 0
    /\ lipschitz = 0
    /\ beta_sqrt = 0
    /\ to_eval = <<>>
    /\ current_turn = 0
    /\ op = "none"
    /\ raised = ""
    /\ retval = None
    /\ branch = "none"
    /\ args = <<>>
    /\ beta_t = -1

\* SafeOptAdvisor.__init__ with seed_set=None: raises ValueError
InitSeedNone ==
    /\ pc = "new"
    /\ pc' = "failed"
    /\ op' = "__init__"
    /\ raised' = "ValueError"
    /\ UNCHANGED <<sets, threshold, lipschitz, beta_sqrt, to_eval, current_turn, retval, branch, args, beta_t>>

\* SafeOptAdvisor.__init__ with a list of seed configurations
InitSeedList(sizes) ==
    /\ pc = "new"
    /\ \E sample_size \in sizes :
       \E seed_set \in SeedLists(sample_size) :
       \E hl \in Params, b \in BetaSqrts :
          LET sm == SeedLoop(SetManager_init(sample_size), seed_set, 1)
          IN  /\ sets' = sm
              /\ threshold' = hl[1]
              /\ lipschitz' = hl[2]
              /\ beta_sqrt' = b
              /\ to_eval' = SeedConfigs(sm)
    /\ current_turn' = 0
    /\ pc' = "ready"
    /\ op' = "__init__"
    /\ raised' = ""
    /\ UNCHANGED <<retval, branch, args, beta_t>>

\* lines 291-292: update_bounds for every row of the prediction
RECURSIVE BoundsLoop(_, _, _, _, _)
BoundsLoop(sm, ids, pred, b, k) ==
    IF k > Len(ids) THEN sm
    ELSE BoundsLoop(update_bounds(sm, ids[k], pred[k][1], pred[k][2], b), ids, pred, b, k + 1)

\* np.min over a set of numbers
NpMin(S) == CHOOSE m \in S : \A x \in S : m <= x

SafeCells(sm) == {c \in DOMAIN sm.s_set : sm.s_set[c]}

\* lines 302-304: minu = np.min(upper_conf[s_set]) raises ValueError on an
\* empty selection; then update_m_set(minu)
MinimizerStep(sm) ==
    IF SafeCells(sm) = {} THEN Raise("ValueError", sm)
    ELSE Ok(update_m_set(sm, NpMin({sm.upper_conf[c] : c \in SafeCells(sm)})))

\* lines 300-304, given the outcome of update_s_set
ExpanderStep(r, h, l) == IF r.exc # "" THEN r ELSE update_g_set(r.val, h, l)
AfterExpander(r) == IF r.exc # "" THEN r ELSE MinimizerStep(r.val)

\* lines 285-304: bounds, safe set, expander set, minimizer set
DeriveSets(sm, ids, pred, h, l, b) ==
    AfterExpander(ExpanderStep(update_s_set(BoundsLoop(sm, ids, pred, b, 1), h, l), h, l))

\* variant of the scan that compares with >= and so keeps the last widest cell
RECURSIVE SelectLoop_ge(_, _, _, _, _)
SelectLoop_ge(sm, cells, k, retx, maxv) ==
    IF k > Len(cells) THEN retx
    ELSE LET i == cells[k]
             condition == (sm.g_set[i] \/ sm.m_set[i]) /\ ~sm.vis_set[i]
             w == sm.upper_conf[i] - sm.lower_conf[i]
         IN  IF condition /\ w >= maxv
             THEN SelectLoop_ge(sm, cells, k + 1, i, w)
             ELSE SelectLoop_ge(sm, cells, k + 1, retx, maxv)

\* lines 306-317: the scan for the widest unvisited expander or minimizer
RECURSIVE SelectLoop(_, _, _, _, _)
SelectLoop(sm, cells, k, retx, maxv) ==
    IF k > Len(cells) THEN retx
    ELSE LET i == cells[k]
             condition == (sm.g_set[i] \/ sm.m_set[i]) /\ ~sm.vis_set[i]
             w == sm.upper_conf[i] - sm.lower_conf[i]
         IN  IF condition /\ w > maxv
             THEN SelectLoop(sm, cells, k + 1, i, w)
             ELSE SelectLoop(sm, cells, k + 1, retx, maxv)

SelectCandidate(sm) == SelectLoop(sm, nd_range(sm.size), 1, None, -BigConf)

\* temp[1:] |= temp[:-1] (d = 1) and temp[:-1] |= temp[1:] (d = -1) along axis ax
ShiftOr(arr, ax, d) ==
    [c \in DOMAIN arr |->
        arr[c] \/ (LET n == [c EXCEPT ![ax] = @ - d] IN n \in DOMAIN arr /\ arr[n])]

\* lines 326-331 applied to the array temp
Dilate(temp, dim) ==
    LET a == ShiftOr(ShiftOr(temp, 1, 1), 1, -1)
    IN  IF dim = 2 THEN ShiftOr(ShiftOr(a, 2, 1), 2, -1) ELSE a

\* lines 333-336 once lines 325-331 ran.  Line 325 binds the name temp to the
\* array vis_set itself, so the in-place |= of lines 326-331 wrote into
\* vis_set and "temp & ~vis_set" reads one array twice.
FallbackDilated(sm) ==
    IF NpAny([c \in DOMAIN sm.vis_set |-> sm.vis_set[c] /\ ~sm.vis_set[c]])
    THEN [sm |-> sm, branch |-> "neighbour",
          possibles |-> [c \in DOMAIN sm.vis_set |-> sm.vis_set[c] /\ ~sm.vis_set[c]]]
    ELSE [sm |-> sm, branch |-> "any",
          possibles |-> [c \in DOMAIN sm.vis_set |-> ~sm.vis_set[c]]]

\* variant of the cascade that skips the safe cells and draws from every unvisited cell
Fallback_anyunvisited(sm) ==
    [sm |-> sm, branch |-> "any",
     possibles |-> [c \in DOMAIN sm.vis_set |-> ~sm.vis_set[c]]]

\* lines 323-336: the cells to draw from
Fallback(sm) ==
    IF NpAny([c \in DOMAIN sm.s_set |-> sm.s_set[c] /\ ~sm.vis_set[c]])
    THEN [sm |-> sm, branch |-> "safe",
          possibles |-> [c \in DOMAIN sm.s_set |-> sm.s_set[c] /\ ~sm.vis_set[c]]]
    ELSE FallbackDilated([sm EXCEPT !.vis_set = Dilate(sm.vis_set, sm.dim)])

\* lines 340-342: rng.randint(0, 0) raises ValueError when nothing is possible
DrawOutcomes(f) ==
    IF ~NpAny(f.possibles)
    THEN {[sets |-> f.sm, exc |-> "ValueError", retx |-> None, branch |-> "none"]}
    ELSE {[sets |-> f.sm, exc |-> "", retx |-> c, branch |-> f.branch] :
             c \in {c \in DOMAIN f.possibles : f.possibles[c]}}

\* lines 319-342
ChooseOutcomes(sm, retx) ==
    IF retx # None
    THEN {[sets |-> sm, exc |-> "", retx |-> retx, branch |-> "candidate"]}
    ELSE DrawOutcomes(Fallback(sm))

\* lines 306-342, given the outcome of lines 285-304
SuggestOutcomes(r) ==
    IF r.exc # ""
    THEN {[sets |-> r.val, exc |-> r.exc, retx |-> None, branch |-> "none"]}
    ELSE ChooseOutcomes(r.val, SelectCandidate(r.val))

\* get_suggestion with a pending configuration: line 344 only
SuggestPending ==
    /\ pc = "ready"
    /\ Len(to_eval) # 0
    /\ op' = "get_suggestion"
    /\ raised' = ""
    /\ retval' = to_eval[1]
    /\ branch' = "pending"
    /\ UNCHANGED <<pc, sets, threshold, lipschitz, beta_sqrt, to_eval, current_turn, args, beta_t>>

\* variant of lines 282-283 that evaluates the schedule before the increment
TurnStep_betafirst ==
    /\ beta_t' = current_turn
    /\ current_turn' = current_turn + 1

\* lines 282-283: current_turn += 1, then self.beta(self.current_turn)
TurnStep ==
    /\ current_turn' = current_turn + 1
    /\ beta_t' = current_turn + 1

\* get_suggestion with nothing pending, lines 277-344, when the surrogate
\* predicts pred (one (mean, std) row per safe cell)
SuggestWith(pred) ==
    /\ pc = "ready"
    /\ Len(to_eval) = 0
    /\ current_turn < MaxTurn
    /\ TurnStep
    /\ op' = "get_suggestion"
    /\ \E o \in SuggestOutcomes(DeriveSets(sets, get_arrays(sets), pred,
                                           threshold, lipschitz, beta_sqrt)) :
          /\ sets' = o.sets
          /\ raised' = o.exc
          /\ branch' = o.branch
          /\ IF o.exc # ""
             THEN /\ to_eval' = to_eval
                  /\ retval' = None
             ELSE /\ to_eval' = <<get_config(o.sets, o.retx)>>
                  /\ retval' = get_config(o.sets, o.retx)
    /\ UNCHANGED <<pc, threshold, lipschitz, beta_sqrt, args>>

\* get_suggestion with nothing pending and finite predictions
SuggestNew ==
    /\ pc = "ready"
    /\ Len(to_eval) = 0
    /\ \E pred \in [1..Len(get_arrays(sets)) -> Predictions] : SuggestWith(pred)

get_suggestion == SuggestPending \/ SuggestNew

\* list.remove: drop the first element equal to x
RECURSIVE Remove(_, _)
Remove(lst, x) ==
    IF lst = <<>> THEN <<>>
    ELSE IF Head(lst) = x THEN Tail(lst)
    ELSE <<Head(lst)>> \o Remove(Tail(lst), x)

InList(x, lst) == \E k \in 1..Len(lst) : lst[k] = x

\* variant of update_observation that marks the nearest cell without looking at pending
ObserveConfig_always(config) ==
    /\ to_eval' = Remove(to_eval, config)
    /\ sets' = [sets EXCEPT !.vis_set[nearest(sets, config)] = TRUE]
    /\ branch' = IF InList(config, to_eval) THEN "observed" ELSE "ignored"
    /\ op' = "update_observation"
    /\ raised' = ""
    /\ retval' = None
    /\ UNCHANGED <<pc, threshold, lipschitz, beta_sqrt, current_turn, args, beta_t>>

\* update_observation(observation), observation.config = config
ObserveConfig(config) ==
    /\ IF InList(config, to_eval)
       THEN /\ to_eval' = Remove(to_eval, config)
            /\ sets' = [sets EXCEPT !.vis_set[nearest(sets, config)] = TRUE]
            /\ branch' = "observed"
       ELSE /\ UNCHANGED <<to_eval, sets>>
            /\ branch' = "ignored"
    /\ op' = "update_observation"
    /\ raised' = ""
    /\ retval' = None
    /\ UNCHANGED <<pc, threshold, lipschitz, beta_sqrt, current_turn, args, beta_t>>

update_observation ==
    /\ pc = "ready"
    /\ \E config \in Vectors(sets.size) : ObserveConfig(config)

SafeOptAdvisor_init == InitSeedNone \/ InitSeedList(GridSizes)

Next == SafeOptAdvisor_init \/ get_suggestion \/ update_observation

Spec == Init /\ [][Next]_vars

\* the same advisor over a grid of three axes
SafeOptAdvisor_init_highdim == InitSeedNone \/ InitSeedList(HighDimSizes)

NextHighDim == SafeOptAdvisor_init_highdim \/ get_suggestion \/ update_observation

SpecHighDim == Init /\ [][NextHighDim]_vars

\* predictions of a surrogate that may return NaN for a mean
AnomalyPredictions == {<<1, 0>>, <<NaN, 0>>}

\* get_suggestion with nothing pending and a surrogate that may return NaN
SuggestAnomalous ==
    /\ pc = "ready"
    /\ Len(to_eval) = 0
    /\ \E pred \in [1..Len(get_arrays(sets)) -> AnomalyPredictions] : SuggestWith(pred)

NextAnomaly ==
    SafeOptAdvisor_init \/ SuggestPending \/ SuggestAnomalous \/ update_observation

SpecAnomaly == Init /\ [][NextAnomaly]_vars

\* ---- SetManager called directly -------------------------------------------
\* A SetManager is a public class; the specifications below call its methods
\* on their own.  pc = "sets" in all of them, the advisor's fields are idle.

\* arguments of the direct update_bounds calls
Means == 0..2
Stds  == 0..1
Betas == {1, 2}

BoundSizes == {sz \in GridSizes : Prod(sz) <= MaxBoundCells}

\* a fresh SetManager(config_space, size)
InitBounds ==
    /\ pc = "sets"
    /\ sets \in {SetManager_init(size) : size \in BoundSizes}
    /\ threshold = 0
    /\ lipschitz = 0
    /\ beta_sqrt = 0
    /\ to_eval = <<>>
    /\ current_turn = 0
    /\ op = "__init__"
    /\ raised = ""
    /\ retval = None
    /\ branch = "none"
    /\ args = <<>>
    /\ beta_t = -1

\* sets.update_bounds(i, m, v, b)
CallUpdateBounds(i, m, v, b) ==
    /\ pc = "sets"
    /\ sets' = update_bounds(sets, i, m, v, b)
    /\ op' = "update_bounds"
    /\ raised' = ""
    /\ retval' = None
    /\ UNCHANGED <<pc, threshold, lipschitz, beta_sqrt, to_eval, current_turn, branch, args, beta_t>>

UpdateBoundsCalls ==
    \E i \in DOMAIN sets.upper_conf, m \in Means, v \in Stds, b \in Betas :
        CallUpdateBounds(i, m, v, b)

SpecBounds == InitBounds /\ [][UpdateBoundsCalls]_vars

\* vectors (numerators) with components inside and outside [0,1]
RECURSIVE WideVectors(_)
WideVectors(size) ==
    IF size = <<>> THEN {<<>>}
    ELSE {<<x>> \o rest :
             x \in (-(OutMargin * (size[1] - 1) * VecScale))
                      ..((1 + OutMargin) * (size[1] - 1) * VecScale),
             rest \in WideVectors(Tail(size))}

\* a fresh SetManager(config_space, size)
InitNearest ==
    /\ pc = "sets"
    /\ sets \in {SetManager_init(size) : size \in GridSizes}
    /\ threshold = 0
    /\ lipschitz = 0
    /\ beta_sqrt = 0
    /\ to_eval = <<>>
    /\ current_turn = 0
    /\ op = "__init__"
    /\ raised = ""
    /\ retval = None
    /\ branch = "none"
    /\ args = <<>>
    /\ beta_t = -1

\* sets.nearest(x0)
CallNearest ==
    /\ pc = "sets"
    /\ \E x0 \in WideVectors(sets.size) :
          /\ args' = <<x0>>
          /\ retval' = nearest(sets, x0)
    /\ op' = "nearest"
    /\ raised' = ""
    /\ UNCHANGED <<pc, sets, threshold, lipschitz, beta_sqrt, to_eval, current_turn, branch, beta_t>>

SpecNearest == InitNearest /\ [][CallNearest]_vars

RangeSizes ==
    {sz \in [1..1 -> 2..MaxRangeCells] \cup [1..2 -> 2..MaxRangeCells] :
        Prod(sz) <= MaxRangeCells}

\* the in-grid boxes l <= r
Boxes(size) ==
    {lr \in Cells(size) \X Cells(size) : \A j \in 1..Len(size) : lr[1][j] <= lr[2][j]}

\* a fresh SetManager(config_space, size): the scratch buffer is zero
InitRange ==
    /\ pc = "sets"
    /\ sets \in {SetManager_init(size) : size \in RangeSizes}
    /\ threshold = 0
    /\ lipschitz = 0
    /\ beta_sqrt = 0
    /\ to_eval = <<>>
    /\ current_turn = 0
    /\ op = "__init__"
    /\ raised = ""
    /\ retval = None
    /\ branch = "none"
    /\ args = <<>>
    /\ beta_t = -1

\* sets._add_range(l, r); args collects the boxes added so far
CallAddRange ==
    /\ pc = "sets"
    /\ op # "_presum"
    /\ Len(args) < MaxBoxes
    /\ \E lr \in Boxes(sets.size) :
          /\ sets' = _add_range(sets, lr[1], lr[2]).val
          /\ raised' = _add_range(sets, lr[1], lr[2]).exc
          /\ args' = Append(args, lr)
    /\ op' = "_add_range"
    /\ UNCHANGED <<pc, threshold, lipschitz, beta_sqrt, to_eval, current_turn, retval, branch, beta_t>>

\* sets._presum(), once after the boxes were added
CallPresum ==
    /\ pc = "sets"
    /\ op # "_presum"
    /\ sets' = _presum(sets)
    /\ op' = "_presum"
    /\ raised' = ""
    /\ UNCHANGED <<pc, threshold, lipschitz, beta_sqrt, to_eval, current_turn, retval, branch, args, beta_t>>

NextRange == CallAddRange \/ CallPresum

SpecRange == InitRange /\ [][NextRange]_vars

\* grids of the direct set updates: the 1-d grids of the advisor runs and the
\* 2-d grids of the range updates
SetSizes == {sz \in GridSizes : Len(sz) = 1} \cup {sz \in RangeSizes : Len(sz) = 2}

\* (h, l) arguments of the direct set updates
SetParams == Params \cup {<<1, 1>>}

\* (upper, lower) pairs a safe cell may hold when the set updates are called
SafeBounds == {<<0, 0>>, <<1, 1>>}

\* per cell: <<>> for an unsafe cell without a prediction, or the bounds of a safe cell
CellStates == {<<>>} \cup SafeBounds

\* a SetManager whose cells were marked safe (s_set is written directly, as in
\* line 246) and given bounds by update_bounds
MarkedSets(size, st) ==
    [SetManager_init(size) EXCEPT
        !.s_set      = [c \in Cells(size) |-> st[c] # <<>>],
        !.upper_conf = [c \in Cells(size) |-> IF st[c] # <<>> THEN st[c][1] ELSE BigConf],
        !.lower_conf = [c \in Cells(size) |-> IF st[c] # <<>> THEN st[c][2] ELSE -BigConf]]

InitSets ==
    /\ pc = "sets"
    /\ sets \in UNION {{MarkedSets(size, st) : st \in [Cells(size) -> CellStates]} :
                        size \in SetSizes}
    /\ threshold = 0
    /\ lipschitz = 0
    /\ beta_sqrt = 0
    /\ to_eval = <<>>
    /\ current_turn = 0
    /\ op = "__init__"
    /\ raised = ""
    /\ retval = None
    /\ branch = "none"
    /\ args = <<>>
    /\ beta_t = -1

\* the effect of a set update that returned r on the SetManager
SetsReturn(r) ==
    /\ sets' = r.val
    /\ raised' = r.exc

\* sets.update_s_set(h, l)
CallUpdateSSet ==
    /\ pc = "sets"
    /\ \E hl \in SetParams :
          /\ SetsReturn(update_s_set(sets, hl[1], hl[2]))
          /\ args' = hl
    /\ op' = "update_s_set"
    /\ UNCHANGED <<pc, threshold, lipschitz, beta_sqrt, to_eval, current_turn, retval, branch, beta_t>>

\* sets.update_g_set(h, l)
CallUpdateGSet ==
    /\ pc = "sets"
    /\ \E hl \in SetParams :
          /\ SetsReturn(update_g_set(sets, hl[1], hl[2]))
          /\ args' = hl
    /\ op' = "update_g_set"
    /\ UNCHANGED <<pc, threshold, lipschitz, beta_sqrt, to_eval, current_turn, retval, branch, beta_t>>

NextSets == CallUpdateSSet \/ CallUpdateGSet

SpecSets == InitSets /\ [][NextSets]_vars

\* ---- properties ---------------------------------------------------------
Grid == DOMAIN sets.s_set

\* c comes before d in row-major order
LexLess(c, d) ==
    \E j \in 1..Len(c) : c[j] < d[j] /\ \A i \in 1..(j - 1) : c[i] = d[i]

Width(sm, c) == sm.upper_conf[c] - sm.lower_conf[c]

\* C1: consecutive get_suggestion calls return the identical configuration,
\* and the later call changes no advisor state (stated here for advisors
\* whose safe set is not empty).
C1_Idempotent ==
    [][(pc = "ready" /\ NpAny(sets.s_set) /\ op = "get_suggestion" /\ op' = "get_suggestion")
          => (/\ raised' = ""
              /\ retval' = retval
              /\ to_eval' = to_eval
              /\ current_turn' = current_turn
              /\ sets' = sets)]_vars

\* C2 as stated: an advisor built from a non-empty seed set never holds more
\* than one pending configuration.
C2_AtMostOnePending ==
    (pc = "ready" /\ NpAny(sets.s_set)) => Len(to_eval) <= 1

\* C2 amended: before the first computed turn the pending list holds at most
\* one configuration per seed cell; from the first computed turn on it holds
\* at most one configuration.
C2_PendingBound ==
    pc = "ready" =>
        IF current_turn = 0
        THEN Len(to_eval) <= Cardinality(SafeCells(sets))
        ELSE Len(to_eval) <= 1

C2_Witness ==
    /\ pc = "ready"
    /\ current_turn >= 1
    /\ Len(to_eval) = 1
    /\ Cardinality({c \in Grid : sets.vis_set[c]}) >= 2

\* C3: with a non-empty seed set and a cell still unvisited, get_suggestion
\* returns the configuration of a grid cell and does not raise.
C3_AlwaysSuggests ==
    [][(pc = "ready" /\ NpAny(sets.s_set) /\ op' = "get_suggestion"
            /\ \E c \in Grid : ~sets.vis_set[c])
          => (raised' = "" /\ \E c \in Grid : retval' = get_config(sets, c))]_vars

\* C4: observing the configuration that get_suggestion returned for cell c
\* removes it from pending and marks exactly c visited.
C4_ObserveMarksCell ==
    [][(pc = "ready" /\ op = "get_suggestion" /\ raised = ""
            /\ op' = "update_observation") => \A c \in Grid :
          (retval = get_config(sets, c) /\ ObserveConfig(retval))
          => (/\ ~InList(retval, to_eval')
              /\ Len(to_eval') = Len(to_eval) - 1
              /\ sets'.vis_set = [sets.vis_set EXCEPT ![c] = TRUE])]_vars

\* a configuration suggested by a computed turn has just been observed
C4_Witness ==
    /\ pc = "ready"
    /\ op = "update_observation"
    /\ branch = "observed"
    /\ current_turn >= 1
    /\ to_eval = <<>>
    /\ Cardinality({c \in Grid : sets.vis_set[c]}) >= 2
    /\ \E c \in Grid : ~sets.vis_set[c]

\* C5: an observation whose configuration is not pending raises nothing and
\* leaves pending, visited, safe and the bounds as they were.
C5_GracefulIgnore ==
    [][(pc = "ready" /\ op' = "update_observation") =>
          \A config \in Vectors(sets.size) :
          (~InList(config, to_eval) /\ ObserveConfig(config))
          => (/\ raised' = ""
              /\ to_eval' = to_eval
              /\ sets'.vis_set = sets.vis_set
              /\ sets'.s_set = sets.s_set
              /\ sets'.upper_conf = sets.upper_conf
              /\ sets'.lower_conf = sets.lower_conf)]_vars

\* after a computed turn pending holds one entry; it is still there after an
\* observation, so that observation did not match
C5_Witness ==
    /\ pc = "ready"
    /\ op = "update_observation"
    /\ branch = "ignored"
    /\ current_turn >= 1
    /\ Len(to_eval) = 1
    /\ \E c \in Grid : sets.vis_set[c]

\* C6: a safe cell never becomes unsafe.
C6_SafeMonotone ==
    [][pc = "ready" => \A c \in Grid : sets.s_set[c] => sets'.s_set[c]]_vars

\* a turn was computed that added a cell to the safe set and one that did not
C6_Witness ==
    /\ pc = "ready"
    /\ current_turn >= 1
    /\ \E c \in Grid : sets.s_set[c] /\ sets.upper_conf[c] = BigConf
    /\ \E c \in Grid : ~sets.s_set[c]

\* C7: no advisor with an empty safe set is ever produced.
C7_EmptySeedRejected ==
    pc = "ready" => NpAny(sets.s_set)

\* C8: on a grid that has neither one nor two axes, no computed turn
\* completes its set updates: each one ends in an error (stated here for
\* advisors whose safe set is not empty).
C8_UnsupportedDimension ==
    [][(pc = "ready" /\ sets.dim \notin {1, 2} /\ NpAny(sets.s_set)
            /\ Len(to_eval) = 0 /\ op' = "get_suggestion")
          => raised' # ""]_vars

\* the unvisited expanders and minimizers of sm, with the visited grid vis
Candidates(sm, vis) == {c \in DOMAIN vis : (sm.g_set[c] \/ sm.m_set[c]) /\ ~vis[c]}

\* c is the widest of the cells cs, and the first such in row-major order
FirstWidest(sm, cs, c) ==
    /\ c \in cs
    /\ \A d \in cs : Width(sm, d) <= Width(sm, c)
    /\ \A d \in cs : Width(sm, d) = Width(sm, c) => (d = c \/ LexLess(c, d))

\* C9: when a computed turn has unvisited expanders or minimizers, the cell
\* it chooses is the widest of them, the first in row-major order among ties.
C9_CandidateSelection ==
    [][(pc = "ready" /\ Len(to_eval) = 0 /\ op' = "get_suggestion"
            /\ Candidates(sets', sets.vis_set) # {})
          => (/\ raised' = ""
              /\ \E c \in Grid : /\ FirstWidest(sets', Candidates(sets', sets.vis_set), c)
                                 /\ retval' = get_config(sets', c)
                                 /\ to_eval' = <<get_config(sets', c)>>)]_vars

\* a turn chose among several equally wide candidates
C9_Witness ==
    /\ pc = "ready"
    /\ op = "get_suggestion"
    /\ branch = "candidate"
    /\ \E c, d \in Candidates(sets, sets.vis_set) :
          /\ c # d
          /\ Width(sets, c) = Width(sets, d)
          /\ FirstWidest(sets, Candidates(sets, sets.vis_set), c)
          /\ retval = get_config(sets, c)

\* C10: when a computed turn finds a safe unvisited cell, the cell it chooses
\* is safe and unvisited.
C10_SuggestsSafe ==
    [][(pc = "ready" /\ Len(to_eval) = 0 /\ op' = "get_suggestion"
            /\ \E c \in Grid : sets'.s_set[c] /\ ~sets.vis_set[c])
          => (/\ raised' = ""
              /\ sets'.vis_set = sets.vis_set
              /\ \E c \in Grid : /\ retval' = get_config(sets', c)
                                 /\ sets'.s_set[c]
                                 /\ ~sets.vis_set[c])]_vars

\* a turn fell back to the safe unvisited cells while an unsafe cell was unvisited
C10_Witness ==
    /\ pc = "ready"
    /\ op = "get_suggestion"
    /\ branch = "safe"
    /\ \E c \in Grid : retval = get_config(sets, c) /\ sets.s_set[c] /\ ~sets.vis_set[c]
    /\ \E c \in Grid : ~sets.s_set[c] /\ ~sets.vis_set[c]

\* c is one grid step along a single axis from a cell marked in vis
Adjacent(vis, c) ==
    \E d \in DOMAIN vis :
        /\ vis[d]
        /\ \E j \in 1..Len(c) :
              /\ (d[j] = c[j] + 1 \/ d[j] = c[j] - 1)
              /\ \A i \in 1..Len(c) : i # j => d[i] = c[i]

\* C11: when a computed turn finds no unvisited expander or minimizer and no
\* safe unvisited cell, while some unvisited cell is next to a visited one,
\* the cell it returns is unvisited and next to a visited cell.
C11_NeighbourFallback ==
    [][(pc = "ready" /\ Len(to_eval) = 0 /\ op' = "get_suggestion" /\ raised' = ""
            /\ NpAny(sets.s_set)
            /\ Candidates(sets', sets.vis_set) = {}
            /\ ~(\E c \in Grid : sets'.s_set[c] /\ ~sets.vis_set[c])
            /\ \E c \in Grid : ~sets.vis_set[c] /\ Adjacent(sets.vis_set, c))
          => (\E c \in Grid : /\ retval' = get_config(sets', c)
                               /\ ~sets.vis_set[c]
                               /\ Adjacent(sets.vis_set, c))]_vars

Visited(sm) == {c \in DOMAIN sm.vis_set : sm.vis_set[c]}

\* C12: a computed turn that returns a configuration returns that of a cell
\* that is unvisited, and a suggest-observe cycle adds exactly one visited
\* cell: the suggesting call adds none and the observation of the suggestion
\* adds one.
C12_ExplorationProgress ==
    [][pc = "ready" =>
          /\ (Len(to_eval) = 0 /\ op' = "get_suggestion" /\ raised' = "")
                => (/\ \E c \in Grid : /\ retval' = get_config(sets', c)
                                        /\ ~sets.vis_set[c]
                                        /\ ~sets'.vis_set[c]
                    /\ Cardinality(Visited(sets')) = Cardinality(Visited(sets)))
          /\ (op = "get_suggestion" /\ raised = "" /\ op' = "update_observation"
                  /\ ObserveConfig(retval))
                => Cardinality(Visited(sets')) = Cardinality(Visited(sets)) + 1]_vars

\* C13: an update_bounds call never raises an upper bound nor lowers a lower
\* bound of any cell, and the same call made again changes nothing.
C13_BoundsTighten ==
    [][(pc = "sets" /\ op' = "update_bounds") =>
          /\ \A c \in Grid : /\ sets'.upper_conf[c] <= sets.upper_conf[c]
                              /\ sets'.lower_conf[c] >= sets.lower_conf[c]
          /\ \A i \in Grid, m \in Means, v \in Stds, b \in Betas :
                CallUpdateBounds(i, m, v, b) => update_bounds(sets', i, m, v, b) = sets']_vars

\* a cell whose interval [0, 1] is the intersection of two predicted intervals
C13_Witness ==
    /\ pc = "sets"
    /\ op = "update_bounds"
    /\ \E c \in Grid : sets.upper_conf[c] = 1 /\ sets.lower_conf[c] = 0

\* C14: in every state of a SetManager the lower bound of every cell is at
\* most its upper bound.
C14_BoundsNeverCross ==
    pc = "sets" => \A c \in Grid : sets.lower_conf[c] <= sets.upper_conf[c]

\* C15: nearest returns a coordinate of the grid for every vector, and the
\* coordinate c for every vector less than half a cell away from c on each axis.
C15_NearestClamped ==
    (pc = "sets" /\ op = "nearest") =>
        /\ retval \in Grid
        /\ \A c \in Grid :
              (\A j \in 1..sets.dim :
                  /\ 2 * (args[1][j] - c[j] * VecScale) < VecScale
                  /\ 2 * (c[j] * VecScale - args[1][j]) < VecScale)
              => retval = c

\* cell c lies in the box lr = <<l, r>>
InBox(c, lr) == \A j \in 1..Len(c) : lr[1][j] <= c[j] /\ c[j] <= lr[2][j]

\* C16: after the _add_range calls and one _presum on a zeroed buffer, the
\* buffer holds at every cell the number of added boxes that contain it.
C16_RangeAddPresum ==
    (pc = "sets" /\ op = "_presum") =>
        \A c \in Grid :
            sets.tmp[c] = Cardinality({k \in 1..Len(args) : InBox(c, args[k])})

\* two overlapping boxes on a 2-d grid were added and summed
C16_Witness ==
    /\ pc = "sets"
    /\ op = "_presum"
    /\ sets.dim = 2
    /\ Len(args) = 2
    /\ args[1] # args[2]
    /\ \E c \in Grid : InBox(c, args[1]) /\ InBox(c, args[2])
    /\ \E c \in Grid : ~InBox(c, args[1]) /\ ~InBox(c, args[2])

\* cell c lies in the box of half-width (num / l) * (size[j] - 1) / sqrt(dim)
\* around cell i, num > 0
InReach(sm, i, c, num, l) ==
    \A j \in 1..sm.dim :
        sm.dim * (c[j] - i[j]) * (c[j] - i[j]) * l * l
            <= (num * (sm.size[j] - 1)) * (num * (sm.size[j] - 1))

\* C17: after update_g_set(h, l) a cell is an expander exactly if it is safe,
\* h - lower is positive and its box contains an unsafe cell, whatever the
\* expander set and the scratch buffer held before.
C17_ExpanderExact ==
    [][(pc = "sets" /\ op' = "update_g_set") =>
          /\ raised' = ""
          /\ \A i \in Grid :
                sets'.g_set[i] <=>
                    /\ sets.s_set[i]
                    /\ args'[1] - sets.lower_conf[i] > 0
                    /\ \E c \in Grid :
                          /\ ~sets.s_set[c]
                          /\ InReach(sets, i, c, args'[1] - sets.lower_conf[i], args'[2])]_vars

\* on a 2-d grid one safe cell reaches an unsafe cell and another safe cell
\* with a positive radius does not
C17_Witness ==
    /\ pc = "sets"
    /\ op = "update_g_set"
    /\ sets.dim = 2
    /\ \E i \in Grid : sets.g_set[i]
    /\ \E i \in Grid : sets.s_set[i] /\ ~sets.g_set[i] /\ args[1] - sets.lower_conf[i] > 0
    /\ \E c \in Grid : ~sets.s_set[c]

\* C19: after update_s_set(h, l) the safe cells are exactly the cells that
\* were safe before and the cells in the box of a previously safe cell whose
\* slack h - upper is positive.
C19_SafeSetExact ==
    [][(pc = "sets" /\ op' = "update_s_set") =>
          /\ raised' = ""
          /\ \A c \in Grid :
                sets'.s_set[c] <=>
                    \/ sets.s_set[c]
                    \/ \E i \in Grid :
                          /\ sets.s_set[i]
                          /\ args'[1] - sets.upper_conf[i] > 0
                          /\ InReach(sets, i, c, args'[1] - sets.upper_conf[i], args'[2])]_vars

\* on a 2-d grid a cell was added to the safe set by a neighbour with slack
\* 1 and Lipschitz constant 1, another cell is still unsafe, and one safe
\* cell has no slack
C19_Witness ==
    /\ pc = "sets"
    /\ op = "update_s_set"
    /\ sets.dim = 2
    /\ args = <<1, 1>>
    /\ \E c \in Grid : /\ sets.s_set[c]
                        /\ sets.upper_conf[c] = BigConf
                        /\ \E i \in Grid : /\ sets.upper_conf[i] = 0
                                            /\ InReach(sets, i, c, 1, 1)
    /\ \E c \in Grid : ~sets.s_set[c]
    /\ \E c \in Grid : sets.s_set[c] /\ sets.upper_conf[c] = 1

\* C18: a computed turn whose prediction holds a NaN for some safe cell ends
\* in an error.
C18_AnomalyReported ==
    [][(pc = "ready" /\ Len(to_eval) = 0 /\ op' = "get_suggestion") =>
          \A pred \in [1..Len(get_arrays(sets)) -> AnomalyPredictions] :
              ((\E k \in DOMAIN pred : pred[k][1] = NaN) /\ SuggestWith(pred))
                  => raised' # ""]_vars

\* C20: get_suggestion leaves the visited grid as it was.
C20_VisitedFrame ==
    [][(pc = "ready" /\ NpAny(sets.s_set) /\ op' = "get_suggestion")
          => sets'.vis_set = sets.vis_set]_vars

\* C21: the constructor leaves the turn counter at 0; a get_suggestion call
\* with nothing pending adds exactly one to it and calls the schedule with
\* the new value, which is at least 1; a get_suggestion call that returns a
\* pending configuration and an update_observation call leave the counter
\* alone and do not call the schedule.
C21_TurnCounter ==
    [][/\ (pc = "new" /\ pc' = "ready") => (current_turn' = 0 /\ beta_t' = -1)
       /\ (pc = "ready" /\ op' = "get_suggestion" /\ Len(to_eval) = 0)
             => (/\ current_turn' = current_turn + 1
                 /\ beta_t' = current_turn'
                 /\ beta_t' >= 1)
       /\ (pc = "ready" /\ ~(op' = "get_suggestion" /\ Len(to_eval) = 0))
             => (current_turn' = current_turn /\ beta_t' = beta_t)]_vars

\* the second computed turn was followed by a call that returned its pending suggestion
C21_Witness ==
    /\ pc = "ready"
    /\ op = "get_suggestion"
    /\ branch = "pending"
    /\ current_turn >= 2
    /\ beta_t = current_turn

\* the safe cells whose lower bound is at most the upper bound of every safe cell
MinimizerCells ==
    {c \in Grid : /\ sets.s_set[c]
                  /\ \A d \in Grid : sets.s_set[d] => sets.lower_conf[c] <= sets.upper_conf[d]}

\* C22: in every state of a constructed advisor the expander set and the
\* minimizer set hold safe cells only, and in the state a get_suggestion call
\* with nothing pending leaves behind the minimizer set is exactly the safe
\* cells whose lower bound is at most the least upper bound of a safe cell.
C22_DerivedSets ==
    pc = "ready" =>
        /\ \A c \in Grid : (sets.g_set[c] \/ sets.m_set[c]) => sets.s_set[c]
        /\ (op = "get_suggestion" /\ branch # "pending")
              => {c \in Grid : sets.m_set[c]} = MinimizerCells

\* a computed turn left an expander, a minimizer and a safe cell that is not a minimizer
C22_Witness ==
    /\ pc = "ready"
    /\ op = "get_suggestion"
    /\ branch # "pending"
    /\ raised = ""
    /\ \E c \in Grid : sets.g_set[c]
    /\ \E c \in Grid : sets.m_set[c]
    /\ \E c \in Grid : sets.s_set[c] /\ ~sets.m_set[c]
    /\ \E c \in Grid : ~sets.s_set[c]

====
